---- MODULE Spec2Model ----
(***************************************************************************)
(* shared_lru: one byte budget (SharedLru) shared by several LruCache      *)
(* instances.  The model follows src/src/allocator.rs and src/src/lib.rs:  *)
(* the Allocator with its recency structure, the Mutex-protected           *)
(* InnerShared (allocator + entry_holders), one RwLock<EntryMap> per       *)
(* cache, and threads that run insert / get / get_or_insert step by step   *)
(* (one step per critical section or lock acquisition).                    *)
(* src/src/lru_map.rs (LruMap) is modelled on its own, beside a reference  *)
(* recency sequence.                                                       *)
(***************************************************************************)
EXTENDS Integers, Sequences, FiniteSets, TLC

\* ---------------------------------------------------------------- bounds
NumThreads == 2
NumCaches == 2
NumKeys == 2
MaxIds == 3
\* Calls per run, and the last call of a run that may start while another
\* call is running (no call starts after two calls have overlapped).
MaxOps == 4
MaxConcCall == 3

Threads == 1..NumThreads
Caches == 1..NumCaches
Keys == 1..NumKeys
\* EntryId wraps a NonZeroUsize: 0 is never an id and stands for None.
Ids == 1..MaxIds
\* Values a caller may store; 0 stands for None.
Values == 1..3
\* Byte limits given to SharedLru::with_byte_limit.
Capacities == {7, 9}
\* Keys and values of the LruMap runs.
NumLruKeys == 4
NumLruValues == 2
LruKeys == 1..NumLruKeys
\* Inserts of a present key in one run.
MaxDupInserts == 1
LruValues == 1..NumLruValues
\* Byte limits of the single-threaded runs: every limit from 0 to MaxCapacity.
MaxCapacity == 16
SeqCapacities == 0..MaxCapacity

\* MemorySize::bytes of a key and of a value: a fixed-size key, and values
\* of three different sizes (the third larger than every byte limit).
KeyBytes(k) == 1
ValueBytes(v) == CASE v = 1 -> 3 [] v = 2 -> 4 [] OTHER -> 9
Cost(k, v) == KeyBytes(k) + ValueBytes(v)

VARIABLES
    allocator,      \* Allocator: [used, capacity, evicting, allocated]
    entry_holders,  \* InnerShared.entry_holders: id -> cache (0: no entry)
    mutexOwner,     \* SharedLru.inner: the thread holding the Mutex, or 0
    poisoned,       \* SharedLru.inner: a thread panicked while holding it
    store,          \* per cache: EntryMap [values, ids, id_keys]
    made,           \* number of caches made so far by make_cache
    alive,          \* per cache: some handle (Arc<RwLock<EntryMap>>) exists
    readers,        \* per cache: threads holding a read guard of its RwLock
    th,             \* per thread: [pc, op, c, k, v, id, ph, exp, dead]
    ret,            \* the call that returned last and what it returned,
                    \* until the next call begins
    nops,           \* number of calls started so far
    overlap,        \* a call has started while another call was running
    stamp,          \* history: recency rank of each allocated id (0: none)
    lru_map,        \* a LruMap: [items, oldest, newest]
    ref,            \* reference: the <<key, value>> pairs, oldest first
    last            \* the last LruMap call: [op, key, got, want]

vars == <<allocator, entry_holders, mutexOwner, poisoned, store, made, alive,
          readers, th, ret, nops, overlap, stamp, lru_map, ref, last>>
lruVars == <<lru_map, ref, last>>

\* ------------------------------------------------ recency structure (lru)
\* lru::LruCache<EntryId, usize> as the allocator uses it: a sequence of
\* <<id, bytes>> pairs, least recently used first.
AllocIds(a) == {a.allocated[i][1] : i \in 1..Len(a.allocated)}

contains(s, id) == \E i \in 1..Len(s) : s[i][1] = id

RECURSIVE without(_, _)
without(s, id) ==
    IF s = <<>> THEN <<>>
    ELSE IF Head(s)[1] = id THEN without(Tail(s), id)
    ELSE <<Head(s)>> \o without(Tail(s), id)

IndexOf(s, id) == CHOOSE i \in 1..Len(s) : s[i][1] = id

\* LruCache::put: the pair becomes the most recently used one.
put(s, id, bytes) == Append(without(s, id), <<id, bytes>>)

\* LruCache::get: a hit moves the pair to the most recently used end.
lru_get(s, id) ==
    IF contains(s, id)
    THEN Append(without(s, id), s[IndexOf(s, id)])
    ELSE s

RECURSIVE SumBytes(_)
SumBytes(s) == IF s = <<>> THEN 0 ELSE Head(s)[2] + SumBytes(Tail(s))

\* --------------------------------------------------------------- Allocator
Allocator_new(capacity) ==
    [used |-> 0, capacity |-> capacity, evicting |-> FALSE, allocated |-> <<>>]

\* Allocator::get_id draws random usize values until one is non-zero and not
\* in `allocated`: any such id can be the result.
get_id(a) == Ids \ AllocIds(a)

\* try_alloc whose Success does not record the id in `allocated`.
try_alloc_no_put(a, bytes, fresh) ==
    IF bytes > a.capacity
    THEN [a |-> a, kind |-> "TooLarge", id |-> 0]
    ELSE LET ev == IF a.used + bytes > a.capacity THEN TRUE
                   ELSE IF a.used < (a.capacity \div 8) * 7 THEN FALSE
                   ELSE a.evicting
             a1 == [a EXCEPT !.evicting = ev]
         IN  IF ev
             THEN IF a1.allocated = <<>>
                  THEN [a |-> a1, kind |-> "Panic", id |-> 0]
                  ELSE [a |-> [a1 EXCEPT !.allocated = Tail(@),
                                         !.used = @ - Head(a1.allocated)[2]],
                        kind |-> "Evict", id |-> Head(a1.allocated)[1]]
             ELSE [a |-> [a1 EXCEPT !.used = @ + bytes],
                   kind |-> "Success", id |-> fresh]

\* try_alloc without the early return of TooLarge.
try_alloc_no_size_check(a, bytes, fresh) ==
    LET ev == IF a.used + bytes > a.capacity THEN TRUE
              ELSE IF a.used < (a.capacity \div 8) * 7 THEN FALSE
              ELSE a.evicting
        a1 == [a EXCEPT !.evicting = ev]
    IN  IF ev
        THEN IF a1.allocated = <<>>
             THEN [a |-> a1, kind |-> "Panic", id |-> 0]
             ELSE [a |-> [a1 EXCEPT !.allocated = Tail(@),
                                    !.used = @ - Head(a1.allocated)[2]],
                   kind |-> "Evict", id |-> Head(a1.allocated)[1]]
        ELSE [a |-> [a1 EXCEPT !.allocated = put(@, fresh, bytes),
                               !.used = @ + bytes],
              kind |-> "Success", id |-> fresh]

\* try_alloc without `self.used -= bytes` on eviction.
try_alloc_keeps_used(a, bytes, fresh) ==
    IF bytes > a.capacity
    THEN [a |-> a, kind |-> "TooLarge", id |-> 0]
    ELSE LET ev == IF a.used + bytes > a.capacity THEN TRUE
                   ELSE IF a.used < (a.capacity \div 8) * 7 THEN FALSE
                   ELSE a.evicting
             a1 == [a EXCEPT !.evicting = ev]
         IN  IF ev
             THEN IF a1.allocated = <<>>
                  THEN [a |-> a1, kind |-> "Panic", id |-> 0]
                  ELSE [a |-> [a1 EXCEPT !.allocated = Tail(@)],
                        kind |-> "Evict", id |-> Head(a1.allocated)[1]]
             ELSE [a |-> [a1 EXCEPT !.allocated = put(@, fresh, bytes),
                                    !.used = @ + bytes],
                   kind |-> "Success", id |-> fresh]

\* Allocator::try_alloc.  `fresh` is the id get_id returns if it is called.
\* The result is the allocator afterwards and the AllocResult; "Panic" is the
\* failed expect("should have item").
try_alloc(a, bytes, fresh) ==
    IF bytes > a.capacity
    THEN [a |-> a, kind |-> "TooLarge", id |-> 0]
    ELSE LET ev == IF a.used + bytes > a.capacity THEN TRUE
                   ELSE IF a.used < (a.capacity \div 8) * 7 THEN FALSE
                   ELSE a.evicting
             a1 == [a EXCEPT !.evicting = ev]
         IN  IF ev
             THEN IF a1.allocated = <<>>
                  THEN [a |-> a1, kind |-> "Panic", id |-> 0]
                  ELSE [a |-> [a1 EXCEPT !.allocated = Tail(@),
                                         !.used = @ - Head(a1.allocated)[2]],
                        kind |-> "Evict", id |-> Head(a1.allocated)[1]]
             ELSE [a |-> [a1 EXCEPT !.allocated = put(@, fresh, bytes),
                                    !.used = @ + bytes],
                   kind |-> "Success", id |-> fresh]

\* set_newest that looks the id up without moving it (a peek).
set_newest_peek(a, id) == a

\* Allocator::set_newest
set_newest(a, id) == [a EXCEPT !.allocated = lru_get(@, id)]

\* ---------------------------------------------------------------- EntryMap
EntryMap_default ==
    [values |-> [i \in Ids |-> 0], ids |-> [k \in Keys |-> 0],
     id_keys |-> [i \in Ids |-> 0]]

\* EntryMap::insert
EntryMap_insert(m, id, key, value) ==
    [values |-> [m.values EXCEPT ![id] = value],
     ids |-> [m.ids EXCEPT ![key] = id],
     id_keys |-> [m.id_keys EXCEPT ![id] = key]]

\* EntryMap::get
EntryMap_get(m, key) == IF m.ids[key] = 0 THEN 0 ELSE m.values[m.ids[key]]

\* EntryMap::get_id
EntryMap_get_id(m, key) == m.ids[key]

\* EntryMap::remove: each `?` returns early, keeping what was removed so far.
EntryMap_remove(m, id) ==
    IF m.id_keys[id] = 0 THEN m
    ELSE LET key == m.id_keys[id]
             m1 == [m EXCEPT !.id_keys[id] = 0]
         IN  IF m1.ids[key] = 0 THEN m1
             ELSE LET m2 == [m1 EXCEPT !.ids[key] = 0]
                  IN  [m2 EXCEPT !.values[id] = 0]

\* ----------------------------------------------------------------- LruMap
\* LruMap<K, V> (lru_map.rs): items maps a key to its Entry [value, prev,
\* next] or to NoEntry; 0 stands for None in prev, next, oldest and newest.
NoEntry == [value |-> 0, prev |-> 0, next |-> 0]
Present(m) == {k \in LruKeys : m.items[k] # NoEntry}

\* LruMap::new
LruMap_new ==
    [items |-> [k \in LruKeys |-> NoEntry], oldest |-> 0, newest |-> 0]

\* LruMap::contains_key
LruMap_contains_key(m, key) == m.items[key] # NoEntry

\* remove_entry that leaves `prev` of the successor as it was.
LruMap_remove_entry_keeps_prev(m, key) ==
    IF m.items[key] = NoEntry
    THEN [m |-> m, ok |-> FALSE]
    ELSE LET prev == m.items[key].prev
             next == m.items[key].next
             a == IF prev # 0
                  THEN IF m.items[prev] = NoEntry
                       THEN [m |-> m, ok |-> FALSE]
                       ELSE [m |-> [m EXCEPT !.items[prev].next = next],
                             ok |-> TRUE]
                  ELSE [m |-> [m EXCEPT !.oldest = next], ok |-> TRUE]
         IN  IF ~a.ok THEN a
             ELSE IF next # 0
                  THEN a
                  ELSE [m |-> [a.m EXCEPT !.newest = prev], ok |-> TRUE]

\* LruMap::remove_entry: unlinks key; ok is FALSE where a `?` returns None,
\* with what was written before it kept.
LruMap_remove_entry(m, key) ==
    IF m.items[key] = NoEntry
    THEN [m |-> m, ok |-> FALSE]
    ELSE LET prev == m.items[key].prev
             next == m.items[key].next
             a == IF prev # 0
                  THEN IF m.items[prev] = NoEntry
                       THEN [m |-> m, ok |-> FALSE]
                       ELSE [m |-> [m EXCEPT !.items[prev].next = next],
                             ok |-> TRUE]
                  ELSE [m |-> [m EXCEPT !.oldest = next], ok |-> TRUE]
         IN  IF ~a.ok THEN a
             ELSE IF next # 0
                  THEN IF a.m.items[next] = NoEntry
                       THEN [m |-> a.m, ok |-> FALSE]
                       ELSE [m |-> [a.m EXCEPT !.items[next].prev = prev],
                             ok |-> TRUE]
                  ELSE [m |-> [a.m EXCEPT !.newest = prev], ok |-> TRUE]

\* LruMap::insert_newest: links key after the newest key.
LruMap_insert_newest(m, key) ==
    IF m.items[key] = NoEntry
    THEN [m |-> m, ok |-> FALSE]
    ELSE LET m1 == [m EXCEPT !.items[key].prev = m.newest,
                             !.items[key].next = 0]
             m2 == IF m1.oldest = 0 THEN [m1 EXCEPT !.oldest = key] ELSE m1
         IN  IF m2.newest = 0
             THEN [m |-> [m2 EXCEPT !.newest = key], ok |-> TRUE]
             ELSE IF m2.items[m2.newest] = NoEntry
                  THEN [m |-> m2, ok |-> FALSE]
                  ELSE [m |-> [m2 EXCEPT !.items[m2.newest].next = key,
                                         !.newest = key],
                        ok |-> TRUE]

\* LruMap::insert: self.items.insert(key, entry); self.insert_newest(key)
LruMap_insert(m, key, value) ==
    LruMap_insert_newest(
        [m EXCEPT !.items[key] = [value |-> value, prev |-> 0, next |-> 0]],
        key).m

\* LruMap::take_oldest: got is <<key, value>>, or <<>> for None.
LruMap_take_oldest(m) ==
    IF m.oldest = 0
    THEN [m |-> m, got |-> <<>>]
    ELSE LET oldest == m.oldest
             r == LruMap_remove_entry(m, oldest)
         IN  IF ~r.ok THEN [m |-> r.m, got |-> <<>>]
             ELSE IF r.m.items[oldest] = NoEntry
                  THEN [m |-> r.m, got |-> <<>>]
                  ELSE [m |-> [r.m EXCEPT !.items[oldest] = NoEntry],
                        got |-> <<oldest, r.m.items[oldest].value>>]

\* set_newest that answers Some(()) for a present key without moving it.
LruMap_set_newest_stays(m, key) ==
    [m |-> m, ok |-> m.items[key] # NoEntry]

\* LruMap::set_newest
LruMap_set_newest(m, key) ==
    LET r == LruMap_remove_entry(m, key) IN
    IF ~r.ok THEN r ELSE LruMap_insert_newest(r.m, key)

\* The keys read from `oldest` along `next`, at most n of them.
RECURSIVE Walk(_, _, _)
Walk(m, k, n) ==
    IF k = 0 \/ n = 0 THEN <<>>
    ELSE IF m.items[k] = NoEntry THEN <<k>>
    ELSE <<k>> \o Walk(m, m.items[k].next, n - 1)
Chain(m) == Walk(m, m.oldest, NumLruKeys + 1)

\* The reference model: a sequence of <<key, value>> pairs with distinct keys.
RefKeys(r) == {r[i][1] : i \in 1..Len(r)}
RefWithout(r, key) == SelectSeq(r, LAMBDA e : e[1] # key)
RefEntry(r, key) == r[CHOOSE i \in 1..Len(r) : r[i][1] = key]
NoCall == [op |-> "none", key |-> 0, got |-> <<>>, want |-> <<>>]

\* ------------------------------------------------------------ history ranks
\* Recency ranks 1..n of the ids with a positive stamp, order kept.
Normalize(st) ==
    [i \in Ids |-> IF st[i] = 0 THEN 0
                   ELSE Cardinality({j \in Ids : st[j] > 0 /\ st[j] <= st[i]})]

Touched(st, id) == Normalize([st EXCEPT ![id] = MaxIds + 1])
Forgotten(st, id) == Normalize([st EXCEPT ![id] = 0])

\* ------------------------------------------------------------------ threads
PanicPcs == {"panic_alloc", "panic_holder", "panic_poison", "panic_unwrap"}
Panicked(t) == th[t].pc \in PanicPcs
Running(t) == th[t].pc # "idle" /\ ~Panicked(t)

IdleTh == [pc |-> "idle", op |-> "none", c |-> 0, k |-> 0, v |-> 0, id |-> 0,
           ph |-> 0, exp |-> 0, dead |-> FALSE]
NoRet == [op |-> "none", c |-> 0, k |-> 0, v |-> 0, val |-> 0, exp |-> 0]

Init ==
    /\ \E cap \in Capacities : allocator = Allocator_new(cap)
    /\ entry_holders = [i \in Ids |-> 0]
    /\ mutexOwner = 0
    /\ poisoned = FALSE
    /\ store = [c \in Caches |-> EntryMap_default]
    /\ made = 0
    /\ alive = [c \in Caches |-> FALSE]
    /\ readers = [c \in Caches |-> {}]
    /\ th = [t \in Threads |-> IdleTh]
    /\ ret = NoRet
    /\ nops = 0
    /\ stamp = [i \in Ids |-> 0]
    /\ overlap = FALSE
    /\ lru_map = LruMap_new
    /\ ref = <<>>
    /\ last = NoCall

\* An id that occurs somewhere in the state.  The ids that occur nowhere are
\* interchangeable: the least of them stands for all of them.
Referenced(i) ==
    \/ i \in AllocIds(allocator)
    \/ entry_holders[i] # 0
    \/ stamp[i] # 0
    \/ \E t \in Threads : th[t].id = i
    \/ \E c \in Caches :
         \/ store[c].values[i] # 0
         \/ store[c].id_keys[i] # 0
         \/ \E k \in Keys : store[c].ids[k] = i
Representative(i) == Referenced(i) \/ \A j \in 1..(i - 1) : Referenced(j)

\* History: the value v when get(k) on cache c is called right after
\* insert(k, v) on cache c returned and no call has run beside the insert or
\* runs beside the get; 0 otherwise.
JustInserted(op, c, k) ==
    IF /\ op = "get" /\ ret.op = "insert" /\ ret.c = c /\ ret.k = k
       /\ ~overlap
       /\ \A u \in Threads : ~Running(u)
    THEN ret.v ELSE 0

\* A call begins on a handle of a live cache, or of the next cache, which
\* SharedLru::make_cache makes now (caches are numbered as they are made).
\* Idle threads are interchangeable: the call is made on the first of them.
Begin(t, op, c, k, v, pc) ==
    /\ th[t].pc = "idle"
    /\ \A u \in 1..(t - 1) : th[u].pc # "idle"
    /\ nops < MaxOps
    /\ IF c <= made THEN alive[c] ELSE c = made + 1
    /\ made' = IF c <= made THEN made ELSE c
    /\ alive' = [alive EXCEPT ![c] = TRUE]
    /\ th' = [th EXCEPT ![t] = [pc |-> pc, op |-> op, c |-> c, k |-> k,
                                v |-> v, id |-> 0, ph |-> 0,
                                exp |-> JustInserted(op, c, k),
                                dead |-> FALSE]]
    /\ ret' = NoRet
    /\ nops' = nops + 1
    /\ ~overlap
    /\ overlap' = \E u \in Threads \ {t} : Running(u)
    /\ overlap' => nops < MaxConcCall
    /\ UNCHANGED <<allocator, entry_holders, mutexOwner, poisoned, store,
                   readers, stamp>>
    /\ UNCHANGED lruVars

\* LruCache::insert is called.
StartInsert(t, c, k, v) == Begin(t, "insert", c, k, v, "claim")
\* LruCache::get is called.
StartGet(t, c, k) == Begin(t, "get", c, k, 0, "get_id")
\* LruCache::get_or_insert is called; v is what insert_with() would return.
StartGetOrInsert(t, c, k, v) == Begin(t, "goi", c, k, v, "get_id")

\* The call of thread t returns val (0: None or unit).
Finish(t, val) ==
    /\ th' = [th EXCEPT ![t] = IdleTh]
    /\ ret' = [op |-> th[t].op, c |-> th[t].c, k |-> th[t].k, v |-> th[t].v,
               val |-> val, exp |-> th[t].exp]

\* LruCache::get returns val: the end of get, or the match in get_or_insert.
AfterGet(t, val) ==
    IF th[t].op = "goi" /\ th[t].ph = 0 /\ val = 0
    THEN /\ th' = [th EXCEPT ![t].pc = "claim", ![t].id = 0]
         /\ UNCHANGED ret
    ELSE Finish(t, val)

\* LruCache::insert returns: the end of insert, or the second get of
\* get_or_insert.
AfterInsert(t) ==
    IF th[t].op = "goi"
    THEN /\ th' = [th EXCEPT ![t].pc = "get_id", ![t].id = 0, ![t].ph = 1]
         /\ UNCHANGED ret
    ELSE Finish(t, 0)

Panic(t, pc) ==
    /\ th' = [th EXCEPT ![t].pc = pc]
    /\ UNCHANGED ret

\* ------------------------------------------------------------------- insert
\* SharedLru::claim: self.inner.lock().unwrap()
Claim_lock(t) ==
    /\ th[t].pc = "claim"
    /\ mutexOwner = 0
    /\ IF poisoned
       THEN Panic(t, "panic_poison") /\ UNCHANGED mutexOwner
       ELSE /\ th' = [th EXCEPT ![t].pc = "try_alloc"]
            /\ mutexOwner' = t
            /\ UNCHANGED ret
    /\ UNCHANGED <<allocator, entry_holders, poisoned, store, made, alive, readers,
                   nops, overlap, stamp>>
    /\ UNCHANGED lruVars

\* InnerShared::claim: one turn of the loop, self.allocator.try_alloc(bytes),
\* and the Success and TooLarge arms of the match.
Claim_try_alloc(t) ==
    /\ th[t].pc = "try_alloc"
    /\ mutexOwner = t
    /\ \E fresh \in Ids :
         LET r == try_alloc(allocator, Cost(th[t].k, th[t].v), fresh) IN
         /\ IF r.kind = "Success"
            THEN fresh \in get_id(allocator) /\ Representative(fresh)
            ELSE fresh = 1
         /\ allocator' = r.a
         /\ CASE r.kind = "TooLarge" ->
                   /\ mutexOwner' = 0
                   /\ AfterInsert(t)
                   /\ UNCHANGED <<entry_holders, poisoned, stamp>>
              [] r.kind = "Panic" ->
                   /\ mutexOwner' = 0
                   /\ poisoned' = TRUE
                   /\ Panic(t, "panic_alloc")
                   /\ UNCHANGED <<entry_holders, stamp>>
              [] r.kind = "Evict" ->
                   /\ th' = [th EXCEPT ![t].pc = "evict", ![t].id = r.id]
                   /\ UNCHANGED <<entry_holders, mutexOwner, poisoned, stamp,
                                  ret>>
              [] OTHER ->
                   /\ entry_holders' = [entry_holders EXCEPT ![r.id] = th[t].c]
                   /\ mutexOwner' = 0
                   /\ th' = [th EXCEPT ![t].pc = "store", ![t].id = r.id]
                   /\ stamp' = Touched(stamp, r.id)
                   /\ UNCHANGED <<poisoned, ret>>
    /\ UNCHANGED <<store, made, alive, readers, nops, overlap>>
    /\ UNCHANGED lruVars

\* InnerShared::evict, with EntryHolder::evict of the holder if it is alive
\* (its write lock is free only when no read guard is held).
Claim_evict(t) ==
    /\ th[t].pc = "evict"
    /\ mutexOwner = t
    /\ LET id == th[t].id
           h == entry_holders[id] IN
       IF h = 0
       THEN /\ mutexOwner' = 0
            /\ poisoned' = TRUE
            /\ Panic(t, "panic_holder")
            /\ UNCHANGED <<entry_holders, store, stamp>>
       ELSE /\ alive[h] => readers[h] = {}
            /\ entry_holders' = [entry_holders EXCEPT ![id] = 0]
            /\ store' = IF alive[h]
                        THEN [store EXCEPT ![h] = EntryMap_remove(@, id)]
                        ELSE store
            /\ stamp' = Forgotten(stamp, id)
            /\ th' = [th EXCEPT ![t].pc = "try_alloc", ![t].id = 0,
                                ![t].dead = @ \/ ~alive[h]]
            /\ UNCHANGED <<mutexOwner, poisoned, ret>>
    /\ UNCHANGED <<allocator, made, alive, readers, nops, overlap>>
    /\ UNCHANGED lruVars

\* LruCache::insert: self.entry_map.write().unwrap().insert(id, key, value)
Insert_store(t) ==
    /\ th[t].pc = "store"
    /\ readers[th[t].c] = {}
    /\ store' = [store EXCEPT ![th[t].c] =
                    EntryMap_insert(@, th[t].id, th[t].k, th[t].v)]
    /\ AfterInsert(t)
    /\ UNCHANGED <<allocator, entry_holders, mutexOwner, poisoned, made, alive,
                   readers, nops, overlap, stamp>>
    /\ UNCHANGED lruVars

\* ---------------------------------------------------------------------- get
\* LruCache::get_id, and the `?` of LruCache::get on a miss.
Get_get_id(t) ==
    /\ th[t].pc = "get_id"
    /\ LET id == EntryMap_get_id(store[th[t].c], th[t].k) IN
       IF id = 0
       THEN AfterGet(t, 0)
       ELSE /\ th' = [th EXCEPT ![t].pc = "touch", ![t].id = id]
            /\ UNCHANGED ret
    /\ UNCHANGED <<allocator, entry_holders, mutexOwner, poisoned, store, made, alive,
                   readers, nops, overlap, stamp>>
    /\ UNCHANGED lruVars

\* SharedLru::touch: self.inner.lock().unwrap().touch(id)
Get_touch(t) ==
    /\ th[t].pc = "touch"
    /\ mutexOwner = 0
    /\ IF poisoned
       THEN Panic(t, "panic_poison") /\ UNCHANGED <<allocator, stamp>>
       ELSE /\ allocator' = set_newest(allocator, th[t].id)
            /\ stamp' = IF th[t].id \in AllocIds(allocator)
                        THEN Touched(stamp, th[t].id) ELSE stamp
            /\ th' = [th EXCEPT ![t].pc = "get_check"]
            /\ UNCHANGED ret
    /\ UNCHANGED <<entry_holders, mutexOwner, poisoned, store, made, alive, readers,
                   nops, overlap>>
    /\ UNCHANGED lruVars

\* LruCache::get: the read guard is taken and read.get(k)? is evaluated.
Get_check(t) ==
    /\ th[t].pc = "get_check"
    /\ IF EntryMap_get(store[th[t].c], th[t].k) = 0
       THEN AfterGet(t, 0) /\ UNCHANGED readers
       ELSE /\ th' = [th EXCEPT ![t].pc = "get_unwrap"]
            /\ readers' = [readers EXCEPT ![th[t].c] = @ \cup {t}]
            /\ UNCHANGED ret
    /\ UNCHANGED <<allocator, entry_holders, mutexOwner, poisoned, store, made, alive,
                   nops, overlap, stamp>>
    /\ UNCHANGED lruVars

\* LruCache::get: map.get(k).unwrap() under the same read guard; the value
\* reference is handed to the caller, who drops it (and the guard) at once.
Get_unwrap(t) ==
    /\ th[t].pc = "get_unwrap"
    /\ LET val == EntryMap_get(store[th[t].c], th[t].k) IN
       IF val = 0 THEN Panic(t, "panic_unwrap") ELSE AfterGet(t, val)
    /\ readers' = [readers EXCEPT ![th[t].c] = @ \ {t}]
    /\ UNCHANGED <<allocator, entry_holders, mutexOwner, poisoned, store, made, alive,
                   nops, overlap, stamp>>
    /\ UNCHANGED lruVars

\* --------------------------------------------------------------------- drop
\* The last handle of cache c is dropped: its EntryMap is freed, and every
\* Weak of it in entry_holders no longer upgrades.
Drop(c) ==
    /\ c <= made
    /\ alive[c]
    /\ \A t \in Threads : th[t].c # c
    /\ readers[c] = {}
    /\ alive' = [alive EXCEPT ![c] = FALSE]
    /\ store' = [store EXCEPT ![c] = EntryMap_default]
    /\ UNCHANGED <<allocator, entry_holders, mutexOwner, poisoned, made,
                   readers, th, ret, nops, overlap, stamp>>
    /\ UNCHANGED lruVars

Next ==
    \/ \E t \in Threads, c \in Caches, k \in Keys, v \in Values :
         StartInsert(t, c, k, v)
    \/ \E t \in Threads, c \in Caches, k \in Keys : StartGet(t, c, k)
    \/ \E t \in Threads, c \in Caches, k \in Keys, v \in Values :
         StartGetOrInsert(t, c, k, v)
    \/ \E t \in Threads : Claim_lock(t)
    \/ \E t \in Threads : Claim_try_alloc(t)
    \/ \E t \in Threads : Claim_evict(t)
    \/ \E t \in Threads : Insert_store(t)
    \/ \E t \in Threads : Get_get_id(t)
    \/ \E t \in Threads : Get_touch(t)
    \/ \E t \in Threads : Get_check(t)
    \/ \E t \in Threads : Get_unwrap(t)
    \/ \E c \in Caches : Drop(c)

Spec == Init /\ [][Next]_vars

\* One thread calls insert and get on one SharedLru, one call after the
\* other, for every byte limit up to MaxCapacity.
SeqInit ==
    /\ \E cap \in SeqCapacities : allocator = Allocator_new(cap)
    /\ entry_holders = [i \in Ids |-> 0]
    /\ mutexOwner = 0
    /\ poisoned = FALSE
    /\ store = [c \in Caches |-> EntryMap_default]
    /\ made = 0
    /\ alive = [c \in Caches |-> FALSE]
    /\ readers = [c \in Caches |-> {}]
    /\ th = [t \in Threads |-> IdleTh]
    /\ ret = NoRet
    /\ nops = 0
    /\ stamp = [i \in Ids |-> 0]
    /\ overlap = FALSE
    /\ lru_map = LruMap_new
    /\ ref = <<>>
    /\ last = NoCall

SeqNext ==
    \/ \E c \in Caches, k \in Keys, v \in Values : StartInsert(1, c, k, v)
    \/ \E c \in Caches, k \in Keys : StartGet(1, c, k)
    \/ Claim_lock(1)
    \/ Claim_try_alloc(1)
    \/ Claim_evict(1)
    \/ Insert_store(1)
    \/ Get_get_id(1)
    \/ Get_touch(1)
    \/ Get_check(1)
    \/ Get_unwrap(1)

SeqSpec == SeqInit /\ [][SeqNext]_vars

\* ------------------------------------------------------------- LruMap runs
\* A LruMap on its own, beside the reference sequence; the caches are not
\* used.
LruInit ==
    /\ allocator = Allocator_new(0)
    /\ entry_holders = [i \in Ids |-> 0]
    /\ mutexOwner = 0
    /\ poisoned = FALSE
    /\ store = [c \in Caches |-> EntryMap_default]
    /\ made = 0
    /\ alive = [c \in Caches |-> FALSE]
    /\ readers = [c \in Caches |-> {}]
    /\ th = [t \in Threads |-> IdleTh]
    /\ ret = NoRet
    /\ nops = 0
    /\ stamp = [i \in Ids |-> 0]
    /\ overlap = FALSE
    /\ lru_map = LruMap_new
    /\ ref = <<>>
    /\ last = NoCall

cacheVars == <<allocator, entry_holders, mutexOwner, poisoned, store, made,
               alive, readers, th, ret, nops, overlap, stamp>>

\* LruMap::insert of a key that is absent (the caller's precondition), in
\* the map and in the reference.
Lru_insert(key, value) ==
    /\ ~LruMap_contains_key(lru_map, key)
    /\ key \notin RefKeys(ref)
    /\ lru_map' = LruMap_insert(lru_map, key, value)
    /\ ref' = Append(ref, <<key, value>>)
    /\ last' = [op |-> "insert", key |-> key, got |-> <<>>, want |-> <<>>]
    /\ UNCHANGED cacheVars

\* LruMap::insert of a key that is present; the reference does nothing.
\* nops counts these calls.
Lru_insert_present(key, value) ==
    /\ LruMap_contains_key(lru_map, key)
    /\ nops < MaxDupInserts
    /\ nops' = nops + 1
    /\ lru_map' = LruMap_insert(lru_map, key, value)
    /\ ref' = ref
    /\ last' = [op |-> "insert_present", key |-> key, got |-> <<>>,
                want |-> <<>>]
    /\ UNCHANGED <<allocator, entry_holders, mutexOwner, poisoned, store, made,
                   alive, readers, th, ret, overlap, stamp>>

\* LruMap::set_newest; got and want are <<1>> for Some(()) and <<>> for None.
Lru_set_newest(key) ==
    LET r == LruMap_set_newest(lru_map, key) IN
    /\ lru_map' = r.m
    /\ ref' = IF key \in RefKeys(ref)
              THEN Append(RefWithout(ref, key), RefEntry(ref, key))
              ELSE ref
    /\ last' = [op |-> "set_newest", key |-> key,
                got |-> IF r.ok THEN <<1>> ELSE <<>>,
                want |-> IF key \in RefKeys(ref) THEN <<1>> ELSE <<>>]
    /\ UNCHANGED cacheVars

\* LruMap::take_oldest
Lru_take_oldest ==
    LET r == LruMap_take_oldest(lru_map) IN
    /\ lru_map' = r.m
    /\ ref' = IF ref = <<>> THEN ref ELSE Tail(ref)
    /\ last' = [op |-> "take_oldest", key |-> 0, got |-> r.got,
                want |-> IF ref = <<>> THEN <<>> ELSE Head(ref)]
    /\ UNCHANGED cacheVars

LruNext ==
    \/ \E key \in LruKeys, value \in LruValues : Lru_insert(key, value)
    \/ \E key \in LruKeys : Lru_set_newest(key)
    \/ Lru_take_oldest

LruSpec == LruInit /\ [][LruNext]_vars

\* The same, with a caller that also inserts a key that is present, and
\* after that only takes the oldest entries.
LruDupNext ==
    \/ \E key \in LruKeys, value \in LruValues :
         nops = 0 /\ Lru_insert(key, value)
    \/ \E key \in LruKeys, value \in LruValues : Lru_insert_present(key, value)
    \/ \E key \in LruKeys : nops = 0 /\ Lru_set_newest(key)
    \/ Lru_take_oldest

LruDupSpec == LruInit /\ [][LruDupNext]_vars

\* A step of the call thread t is in.
Step(t) ==
    \/ Claim_lock(t) \/ Claim_try_alloc(t) \/ Claim_evict(t) \/ Insert_store(t)
    \/ Get_get_id(t) \/ Get_touch(t) \/ Get_check(t) \/ Get_unwrap(t)

\* Every thread inside a call is scheduled again: a step that stays enabled
\* (a lock that stays free) is eventually taken.
FairSpec == Spec /\ \A t \in Threads : WF_vars(Step(t))

\* LruCache::get returns and the caller keeps the ValueRef: the read guard
\* of the store stays held (as -t in readers) after the call.  A thread keeps
\* at most one ValueRef at a time.
Get_unwrap_keep(t) ==
    /\ th[t].pc = "get_unwrap"
    /\ \A c \in Caches : -t \notin readers[c]
    /\ LET val == EntryMap_get(store[th[t].c], th[t].k) IN
         val # 0 /\ AfterGet(t, val)
    /\ readers' = [readers EXCEPT ![th[t].c] = (@ \ {t}) \cup {-t}]
    /\ UNCHANGED <<allocator, entry_holders, mutexOwner, poisoned, store, made,
                   alive, nops, overlap, stamp>>
    /\ UNCHANGED lruVars

\* The caller drops the ValueRef it kept, between two calls.
ValueRef_drop(t) ==
    /\ th[t].pc = "idle"
    /\ \E c \in Caches : -t \in readers[c]
    /\ readers' = [c \in Caches |-> readers[c] \ {-t}]
    /\ UNCHANGED <<allocator, entry_holders, mutexOwner, poisoned, store, made,
                   alive, th, ret, nops, overlap, stamp>>
    /\ UNCHANGED lruVars

\* One thread calls insert, get and get_or_insert and may keep the ValueRef
\* a get returned while it makes its next calls.
HoldNext ==
    \/ \E c \in Caches, k \in Keys, v \in Values : StartInsert(1, c, k, v)
    \/ \E c \in Caches, k \in Keys : StartGet(1, c, k)
    \/ \E c \in Caches, k \in Keys, v \in Values :
         StartGetOrInsert(1, c, k, v)
    \/ Claim_lock(1)
    \/ Claim_try_alloc(1)
    \/ Claim_evict(1)
    \/ Insert_store(1)
    \/ Get_get_id(1)
    \/ Get_touch(1)
    \/ Get_check(1)
    \/ Get_unwrap(1)
    \/ Get_unwrap_keep(1)
    \/ ValueRef_drop(1)

\* The thread is scheduled while it is inside a call; when it drops a
\* ValueRef is up to the caller.
HoldSpec == Init /\ [][HoldNext]_vars /\ WF_vars(Step(1))

\* ======================================================================
\* Properties
\* ======================================================================
Fits(k, v) == Cost(k, v) <= allocator.capacity
Evicting(t) == th[t].pc = "evict"

\* ------------------------------------------------------------------- C1
\* C1 (global LRU order): the recency structure lists the allocated ids of
\* all caches in the order of their last touch (allocation by a successful
\* insert, or the touch of a get that found the id allocated), so a touched
\* id is the newest; and an id reported by Evict was touched before every id
\* that remains allocated, whichever cache asked for space.
C1_GlobalLruOrder ==
    LET s == allocator.allocated IN
    /\ \A i \in 1..Len(s) : stamp[s[i][1]] > 0
    /\ \A i, j \in 1..Len(s) : i < j => stamp[s[i][1]] < stamp[s[j][1]]
    /\ \A t \in Threads : Evicting(t) =>
         /\ stamp[th[t].id] > 0
         /\ \A j \in AllocIds(allocator) : stamp[th[t].id] < stamp[j]

\* A claim of one cache evicts an id of another cache while the asking cache
\* has an allocated id of its own.
C1_Witness ==
    \E t \in Threads :
      /\ Evicting(t)
      /\ entry_holders[th[t].id] \notin {0, th[t].c}
      /\ \E j \in AllocIds(allocator) : entry_holders[j] = th[t].c

\* ------------------------------------------------------------------- C2
\* C2 (budget invariant): in every state, also inside a claim's loop, `used`
\* is the sum of the sizes recorded in `allocated` and is at most `capacity`;
\* an Evict result lowers `used` by the size recorded for the evicted id and
\* a Success raises it by the requested bytes.
C2_BudgetState ==
    /\ allocator.used = SumBytes(allocator.allocated)
    /\ allocator.used <= allocator.capacity

C2_BudgetStep ==
    \A t \in Threads :
      /\ (th[t].pc = "try_alloc" /\ th'[t].pc = "evict") =>
           /\ contains(allocator.allocated, th'[t].id)
           /\ allocator'.used = allocator.used
                - allocator.allocated[IndexOf(allocator.allocated, th'[t].id)][2]
           /\ ~contains(allocator'.allocated, th'[t].id)
      /\ (th[t].pc = "try_alloc" /\ th'[t].pc = "store") =>
           /\ allocator'.used = allocator.used + Cost(th[t].k, th[t].v)
           /\ contains(allocator'.allocated, th'[t].id)

C2_Budget == []C2_BudgetState /\ [][C2_BudgetStep]_vars

\* An eviction has lowered `used` and other ids are still charged.
C2_Witness ==
    \E t \in Threads :
      /\ Evicting(t)
      /\ allocator.used > 0
      /\ allocator.used < allocator.capacity

\* ------------------------------------------------------------------- C3
\* A step of thread t inside insert(k, v) whose cost exceeds the byte limit.
TooLargeStep(t) ==
    /\ th[t].op = "insert"
    /\ ~Fits(th[t].k, th[t].v)
    /\ th'[t] # th[t]

\* Every step of a too-large insert leaves the allocator, the registry, the
\* recency order and every store as they are, and obtains no id.
C3_Frame ==
    \A t \in Threads : TooLargeStep(t) =>
      /\ UNCHANGED <<allocator, entry_holders, store, stamp>>
      /\ th'[t].id = 0
      /\ th'[t].pc \in {"try_alloc", "idle", "panic_poison"}

\* A get(key) that follows a too-large insert(key, value).
GetAfterTooLarge ==
    ret.op = "get" /\ ret.exp # 0 /\ ~Fits(ret.k, ret.exp)

\* C3 as stated: the too-large insert changes nothing, and a following
\* get(key) returns None.
C3_FollowingGetIsNone == GetAfterTooLarge => ret.val = 0
C3_RejectedNotReturned == GetAfterTooLarge => ret.val # ret.exp
C4_InsertCompletes ==
    \A t \in Threads :
      (~overlap /\ th[t].op = "insert" /\ Fits(th[t].k, th[t].v))
         => th[t].pc \notin {"panic_alloc", "panic_holder"}
C4_GetReturnsInserted ==
    (~overlap /\ ret.op = "get" /\ ret.exp # 0 /\ Fits(ret.k, ret.exp))
       => ret.val = ret.exp
C4_RoundTrip == C4_InsertCompletes /\ C4_GetReturnsInserted

\* ------------------------------------------------------------------- C5
\* The ids of cache c that carry key k: charged in the allocator, registered,
\* or left in the store.
IdsOfKey(c, k) ==
    {i \in Ids : store[c].id_keys[i] = k}

\* C5 (re-insert releases the old allocation): no store holds a key
\* back-pointer under an id that is not the current id of that key, and at
\* most one allocated id is charged for a key of a cache.
C5_ReinsertReleases ==
    \A c \in Caches, k \in Keys :
      /\ \A i \in IdsOfKey(c, k) : store[c].ids[k] = i
      /\ Cardinality({i \in IdsOfKey(c, k) :
                        i \in AllocIds(allocator) /\ entry_holders[i] = c}) <= 1

\* ------------------------------------------------------------------- C6
\* C6 (evicting an id removes that id and nothing else): a step of
\* EntryHolder::evict(id) on a live store leaves no value, key->id mapping or
\* back-pointer under id and keeps every mapping of any other id.
C6_EvictStep ==
    \A t \in Threads :
      (Evicting(t) /\ th'[t].pc = "try_alloc") =>
        LET id == th[t].id
            h == entry_holders[id]
            m == store[h]
            n == store'[h] IN
        alive[h] =>
          /\ n.values[id] = 0
          /\ n.id_keys[id] = 0
          /\ \A k \in Keys : n.ids[k] # id
          /\ \A k \in Keys : m.ids[k] # id => n.ids[k] = m.ids[k]
          /\ \A j \in Ids \ {id} :
               n.values[j] = m.values[j] /\ n.id_keys[j] = m.id_keys[j]
C6_EvictOnlyThatId == [][C6_EvictStep]_vars

\* ------------------------------------------------------------------- C7
\* C7 (get_or_insert returns Some when the pair fits): a get_or_insert whose
\* pair costs at most the byte limit never returns None.
C7_GetOrInsertSome ==
    (ret.op = "goi" /\ Fits(ret.k, ret.v)) => ret.val # 0

\* ------------------------------------------------------------------- C8
\* C8 (drop independence): a claim that evicts an id of a dropped cache skips
\* the failed upgrade, removes the registry entry, leaves every store as it
\* is and goes on without a panic; dropping a cache changes no other store.
C8_NoPanicAfterSkip ==
    \A t \in Threads : th[t].dead => th[t].pc \notin {"panic_alloc", "panic_holder"}
C8_SkipStep ==
    /\ \A t \in Threads :
         (Evicting(t) /\ entry_holders[th[t].id] # 0
                      /\ ~alive[entry_holders[th[t].id]]
                      /\ th'[t] # th[t]) =>
            /\ th'[t].pc = "try_alloc"
            /\ entry_holders'[th[t].id] = 0
            /\ UNCHANGED <<store, allocator>>
    /\ \A c \in Caches : (alive[c] /\ ~alive'[c]) =>
         \A b \in Caches \ {c} : store'[b] = store[b]
C8_DropIndependence == []C8_NoPanicAfterSkip /\ [][C8_SkipStep]_vars

\* ------------------------------------------------------------------- C9
\* C9 (id uniqueness): no id has a value in two stores at once, and no insert
\* is about to write under an id that already has a value in a store.
C9_IdUniqueness ==
    /\ \A i \in Ids : Cardinality({c \in Caches : store[c].values[i] # 0}) <= 1
    /\ \A t \in Threads : th[t].pc = "store" =>
         \A c \in Caches : store[c].values[th[t].id] = 0

\* ------------------------------------------------------------------ C10
\* C10 (tolerated get/evict race): get never panics, and returns None or the
\* value stored under its key when it returns; the touch of an id that is no
\* longer allocated leaves the allocator as it is.
C10_GetNeverPanics ==
    \A t \in Threads : th[t].op = "get" => ~Panicked(t)
C10_UnwrapHolds ==
    \A t \in Threads : th[t].pc # "panic_unwrap"
C10_GetStep ==
    \A t \in Threads :
      /\ (th[t].pc = "touch" /\ th'[t].pc = "get_check"
            /\ th[t].id \notin AllocIds(allocator)) => UNCHANGED allocator
      /\ (th[t].pc \in {"get_id", "get_check", "get_unwrap"}
            /\ th[t].op = "get" /\ th'[t].pc = "idle") =>
           ret'.val \in {0, EntryMap_get(store[th[t].c], th[t].k)}
C10_GetEvictRace == []C10_GetNeverPanics /\ []C10_UnwrapHolds /\ [][C10_GetStep]_vars

\* ------------------------------------------------------------------ C11
\* The store read guards thread t holds.
HeldGuards(t) == {c \in Caches : t \in readers[c]}

\* The Coordinator mutex is never requested or held by a thread that holds a
\* store's read guard.
C11_LockOrder ==
    \A t \in Threads :
      (th[t].pc \in {"claim", "touch", "try_alloc", "evict"} \/ mutexOwner = t)
         => HeldGuards(t) = {}

\* No thread stays inside a call forever without a panic: none is blocked
\* for good on the mutex or on a store's lock.
C11_NeverBlocked == \A t \in Threads : Running(t) ~> ~Running(t)

\* C11 (acyclic lock order, hence no deadlock): the mutex is never requested
\* under a store's lock, and every call that was started returns.
C11_AllComplete == \A t \in Threads : (th[t].pc # "idle") ~> (th[t].pc = "idle")
C11_NoDeadlock == []C11_LockOrder /\ C11_AllComplete

\* ------------------------------------------------------------------ C12
\* The bytes of the entries store c holds.
StoredBytes(c) ==
    LET m == store[c]
        held == {i \in Ids : m.values[i] # 0 /\ m.id_keys[i] # 0}
        RECURSIVE Sum(_)
        Sum(S) == IF S = {} THEN 0
                  ELSE LET i == CHOOSE x \in S : TRUE
                       IN Cost(m.id_keys[i], m.values[i]) + Sum(S \ {i})
    IN Sum(held)

\* C12 (no orphan entries): whenever the mutex is free (and no call has
\* panicked under it), every id under which a store holds a value is
\* allocated and registered to that store, and the stored entries of all
\* stores together cost at most the byte limit.
C12_NoOrphans ==
    (mutexOwner = 0 /\ ~poisoned) =>
      /\ \A c \in Caches, i \in Ids :
           store[c].values[i] # 0 =>
             i \in AllocIds(allocator) /\ entry_holders[i] = c
      /\ StoredBytes(1) + StoredBytes(2) <= allocator.capacity

\* ------------------------------------------------------------------ C13
\* C13 (the claim loop terminates without a fatal abort): try_alloc never
\* pops from an empty `allocated`, for every byte limit.
C13_ClaimNeverAborts == \A t \in Threads : th[t].pc # "panic_alloc"

\* ------------------------------------------------------------------ C14
\* C14 (minimum number of evictions): a turn of the claim loop evicts nothing
\* when the request fits beside what is allocated (used + bytes <= capacity).
C14_EvictStep ==
    \A t \in Threads :
      (/\ th[t].pc = "try_alloc"
       /\ allocator.used + Cost(th[t].k, th[t].v) <= allocator.capacity)
         => th'[t].pc # "evict"
C14_MinimumEvictions == [][C14_EvictStep]_vars

\* ------------------------------------------------------------------ C15
\* The ids that have a registry entry.
Registered == {i \in Ids : entry_holders[i] # 0}

\* C15 (registry/allocator agreement): whenever the mutex is free, the ids
\* with a registry entry are exactly the allocated ids, and InnerShared::evict
\* always finds the holder of the id it is given.
C15_RegistryAgrees ==
    /\ mutexOwner = 0 => Registered = AllocIds(allocator)
    /\ \A t \in Threads : th[t].pc # "panic_holder"
    /\ \A t \in Threads : Evicting(t) => entry_holders[th[t].id] # 0

\* A claim that evicted an id of a dropped cache has succeeded and released
\* the mutex, with another id still allocated beside its own.
C15_Witness ==
    /\ mutexOwner = 0
    /\ \E t \in Threads : th[t].pc = "store" /\ th[t].dead
    /\ Cardinality(AllocIds(allocator)) >= 2

\* ------------------------------------------------------------------ C16
\* The three maps of an EntryMap agree.
Consistent(m) ==
    /\ {i \in Ids : m.values[i] # 0} = {i \in Ids : m.id_keys[i] # 0}
    /\ \A i \in Ids : m.id_keys[i] # 0 => m.ids[m.id_keys[i]] = i
    /\ \A k \in Keys : m.ids[k] # 0 =>
         m.values[m.ids[k]] # 0 /\ m.id_keys[m.ids[k]] = k

\* C16 (store consistency): whenever no thread holds a store's lock, the
\* values, ids and id_keys of that store agree.
C16_StoreConsistent ==
    \A c \in Caches : readers[c] = {} => Consistent(store[c])

\* ------------------------------------------------------------------ C17
\* Thread t holds a ValueRef of cache c that an earlier get returned.
HoldsValueRef(t, c) == -t \in readers[c]

\* C17 (operations run to completion while a value reference is held): a
\* call made by a thread that still holds a ValueRef does not stay inside the
\* call forever: it is never blocked for good on the mutex or a store's lock.
C17_RunsToCompletion == \A t \in Threads : Running(t) ~> ~Running(t)

\* ------------------------------------------------------------------ C18
WellFormed(m) ==
    LET c == Chain(m)
        P == Present(m) IN
    /\ m.oldest = 0 <=> P = {}
    /\ m.newest = 0 <=> P = {}
    /\ Len(c) = Cardinality(P)
    /\ {c[i] : i \in 1..Len(c)} = P
    /\ c # <<>> =>
         /\ c[Len(c)] = m.newest
         /\ m.items[m.newest].next = 0
         /\ m.items[m.oldest].prev = 0
    /\ \A i \in 2..Len(c) : m.items[c[i]].prev = c[i - 1]

\* C18 (LruMap well-formedness): after any sequence of insert of absent
\* keys, set_newest and take_oldest, oldest and newest are None iff items is
\* empty, the chain from oldest along next visits every key once and ends at
\* newest, and prev is the inverse of next.
C18_WellFormed == WellFormed(lru_map)

\* set_newest of a key in the middle of a full map has just returned Some.
C18_Witness ==
    /\ last.op = "set_newest" /\ last.got = <<1>>
    /\ Len(ref) = NumLruKeys
    /\ lru_map.newest = last.key
    /\ lru_map.items[last.key].prev < last.key
    /\ lru_map.oldest # 1

\* ------------------------------------------------------------------ C19
\* C19 (LruMap is equivalent to a recency sequence): every call returns what
\* the reference returns, and the keys from oldest along next, with their
\* values, are the reference sequence.
C19_Equivalent ==
    /\ last.got = last.want
    /\ Chain(lru_map) = [i \in 1..Len(ref) |-> ref[i][1]]
    /\ \A i \in 1..Len(ref) : lru_map.items[ref[i][1]].value = ref[i][2]

\* take_oldest has just returned the oldest pair of a map whose order was
\* changed by set_newest (the oldest key is not the least key inserted).
C19_Witness ==
    /\ last.op = "take_oldest" /\ last.got # <<>>
    /\ Len(ref) >= 2
    /\ last.got[1] > ref[1][1] /\ ref[1][1] > ref[2][1]

\* ------------------------------------------------------------------ C20
\* LruMap::insert of a present key changes nothing.
C20_Step ==
    \A key \in LruKeys, value \in LruValues :
      Lru_insert_present(key, value) => UNCHANGED lru_map

\* C20 (insert of a present key is a no-op): the map is unchanged by it, is
\* still well formed, and so still agrees with the unchanged reference.
C20_StillWellFormed ==
    last.op = "insert_present" =>
      /\ WellFormed(lru_map)
      /\ Chain(lru_map) = [i \in 1..Len(ref) |-> ref[i][1]]
C20_DuplicateInsertNoOp == []C20_StillWellFormed /\ [][C20_Step]_vars

====
